---- MODULE Spec2Model ----
(***************************************************************************)
(* SemanticSearchEngine (src/main.py) and the upload paths of the          *)
(* Streamlit dashboard (src/streamlit_app.py) as a state machine.          *)
(*                                                                         *)
(* The state is the engine object, the Pinecone account (its indexes),     *)
(* the process environment and the dashboard's session state.  Every       *)
(* operation records what it was called with (op), how it ended (outcome,  *)
(* ret) and the calls it made to the embedding API, the Pinecone client    *)
(* and the vector store (calls), in the order the code makes them.         *)
(*                                                                         *)
(* Environment: the embedding probe and the Pinecone control plane         *)
(* (list/describe/create/delete) answer; splitting, embedding and          *)
(* upserting inside build_index and the upload paths, where the code has   *)
(* exception handlers, may raise.                                          *)
(***************************************************************************)
EXTENDS Integers, Sequences, FiniteSets, TLC

VARIABLES
    environ,         \* os.environ: GOOGLE_API_KEY, PINECONE_API_KEY
    indexes,         \* the Pinecone account: index name -> index
    engine,          \* the SemanticSearchEngine object, NoneVal before one exists
    initialized,     \* st.session_state.initialized ("unset" before the first run)
    upload_history,  \* st.session_state.upload_history
    op,              \* the last operation and its arguments
    outcome,         \* "ok" or the exception the last operation raised
    ret,             \* what the last operation returned
    calls            \* the external calls the last operation made, in order

vars == <<environ, indexes, engine, initialized, upload_history, op, outcome, ret, calls>>

----------------------------------------------------------------------------
(* Bounds *)

MaxVectors == 3
MaxHistory == 2

----------------------------------------------------------------------------
(* Values *)

NoneVal == [tag |-> "None"]
NoKey == "<None>"

ArgKeys == {NoKey, "", "arg-key"}
DefaultKeys == {NoKey}
EnvKeys == {NoKey, "env-key"}

DefaultModel == "gemini-embedding-001"
DefaultIndexName == "semantic-search"
ModelNames == {DefaultModel, "text-embedding-004"}
IndexNames == {DefaultIndexName, "other-index"}

\* lengths of the vectors the embedding API may return
Dimensions == {768, 3072}

Queries == {"what is deep learning?", "test"}
Ks == {1, 5}

Min(a, b) == IF a <= b THEN a ELSE b

NoIndex == [exists |-> FALSE, dimension |-> 0, metric |-> "", cloud |-> "",
            region |-> "", total_vector_count |-> 0]

\* python truthiness of an optional string, and `a or b`
Truthy(s) == s # NoKey /\ s # ""
PyOr(a, b) == IF Truthy(a) THEN a ELSE b

\* os.getenv
getenv(name) == environ[name]

\* [idx.name for idx in self.pc.list_indexes()]
list_indexes(idx) == {n \in IndexNames : idx[n].exists}

----------------------------------------------------------------------------
(* SemanticSearchEngine.__init__ *)

\* "gemini-embedding-001" in google_model_name, over the model names used
IsGemini001(google_model_name) == google_model_name = "gemini-embedding-001"

GeminiDimension == 3072

expected_dimension(google_model_name, actual_dimension) ==
    IF IsGemini001(google_model_name) THEN GeminiDimension ELSE actual_dimension

embedding_dimension_expected(google_model_name, actual_dimension) ==
    expected_dimension(google_model_name, actual_dimension)

embedding_dimension(google_model_name, actual_dimension) ==
    IF actual_dimension # expected_dimension(google_model_name, actual_dimension)
    THEN actual_dimension
    ELSE expected_dimension(google_model_name, actual_dimension)

api_key_env_first(google_api_key) == PyOr(getenv("GOOGLE_API_KEY"), google_api_key)

api_key(google_api_key) == PyOr(google_api_key, getenv("GOOGLE_API_KEY"))

pc_key(pinecone_api_key) == PyOr(pinecone_api_key, getenv("PINECONE_API_KEY"))

GoogleGenerativeAIEmbeddings(model, key) ==
    [model |-> model, google_api_key |-> key, task_type |-> "retrieval_document"]

Pinecone(key) == [api_key |-> key]

create_index(idx, name, dimension) ==
    [idx EXCEPT ![name] = [exists |-> TRUE, dimension |-> dimension, metric |-> "cosine",
                           cloud |-> "aws", region |-> "us-east-1",
                           total_vector_count |-> 0]]

create_index_call(name, dimension) ==
    [api |-> "create_index", name |-> name, dimension |-> dimension, metric |-> "cosine",
     cloud |-> "aws", region |-> "us-east-1"]

chunk_size == 1000
chunk_overlap == 200

NewEngine(emb, pc, name) ==
    [tag |-> "Engine", embeddings |-> emb, pc |-> pc, index_name |-> name,
     vector_store |-> NoneVal,
     text_splitter |-> [chunk_size |-> chunk_size, chunk_overlap |-> chunk_overlap]]

\* The result of the index step of the constructor (lines 78-116), given the
\* calls made so far.
init_index_step_always_create(idx, emb, pc, name, dim, sofar) ==
    [outcome |-> "ok", engine |-> NewEngine(emb, pc, name),
     indexes |-> create_index(idx, name, dim),
     calls |-> sofar \o <<[api |-> "list_indexes"], create_index_call(name, dim)>>]

init_index_step_no_verify(idx, emb, pc, name, dim, sofar) ==
    IF name \notin list_indexes(idx)
    THEN init_index_step_always_create(idx, emb, pc, name, dim, sofar)
    ELSE [outcome |-> "ok", engine |-> NewEngine(emb, pc, name), indexes |-> idx,
          calls |-> sofar \o <<[api |-> "list_indexes"],
                               [api |-> "describe_index", name |-> name]>>]

init_index_step(idx, emb, pc, name, dim, sofar) ==
    IF name \notin list_indexes(idx)
    THEN [outcome |-> "ok", engine |-> NewEngine(emb, pc, name),
          indexes |-> create_index(idx, name, dim),
          calls |-> sofar \o <<[api |-> "list_indexes"], create_index_call(name, dim)>>]
    ELSE IF idx[name].dimension # dim
         THEN [outcome |-> "ValueError: DIMENSION MISMATCH", engine |-> NoneVal,
               indexes |-> idx,
               calls |-> sofar \o <<[api |-> "list_indexes"],
                                    [api |-> "describe_index", name |-> name]>>]
         ELSE [outcome |-> "ok", engine |-> NewEngine(emb, pc, name), indexes |-> idx,
               calls |-> sofar \o <<[api |-> "list_indexes"],
                                    [api |-> "describe_index", name |-> name]>>]

\* The constructor: what it raises or the engine it produces, the account
\* afterwards and the calls made.  probe is the length of the vector the
\* embedding API returns for embed_query("test").
SemanticSearchEngine_init(idx, google_model_name, google_api_key, pinecone_api_key, pinecone_index_name, probe) ==
    IF ~Truthy(api_key(google_api_key))
    THEN [outcome |-> "ValueError: GOOGLE_API_KEY", engine |-> NoneVal, indexes |-> idx,
          calls |-> <<>>]
    ELSE IF ~Truthy(pc_key(pinecone_api_key))
    THEN [outcome |-> "ValueError: PINECONE_API_KEY", engine |-> NoneVal, indexes |-> idx,
          calls |-> <<[api |-> "embed_query", key |-> api_key(google_api_key),
                       text |-> "test", length |-> probe]>>]
    ELSE init_index_step(idx,
             GoogleGenerativeAIEmbeddings(google_model_name, api_key(google_api_key)),
             Pinecone(pc_key(pinecone_api_key)), pinecone_index_name,
             embedding_dimension(google_model_name, probe),
             <<[api |-> "embed_query", key |-> api_key(google_api_key),
                text |-> "test", length |-> probe],
               [api |-> "Pinecone", key |-> pc_key(pinecone_api_key)]>>)

\* engine = SemanticSearchEngine(...): a constructor that raises leaves the
\* name `engine` bound to what it was bound to before.
Construct(GoogleKeys, PineconeKeys) ==
    \E m \in ModelNames, gk \in GoogleKeys, pk \in PineconeKeys, name \in IndexNames,
       probe \in Dimensions :
        LET r == SemanticSearchEngine_init(indexes, m, gk, pk, name, probe) IN
        /\ op' = [name |-> "__init__", google_model_name |-> m, google_api_key |-> gk,
                  pinecone_api_key |-> pk, pinecone_index_name |-> name, probe |-> probe]
        /\ outcome' = r.outcome
        /\ ret' = r.engine
        /\ calls' = r.calls
        /\ indexes' = r.indexes
        /\ engine' = IF r.outcome = "ok" THEN r.engine ELSE engine
        /\ UNCHANGED <<environ, initialized, upload_history>>


----------------------------------------------------------------------------
(* The text splitter and the vector store *)

\* A Document is [page_content |-> its length in characters, source |-> ...].
\* RecursiveCharacterTextSplitter(chunk_size, chunk_overlap, length_function=len):
\* windows of at most chunk_size characters, each starting chunk_overlap
\* characters before the end of the one before.
RECURSIVE split_text(_)
split_text(n) ==
    IF n = 0 THEN <<>>
    ELSE IF n <= chunk_size THEN <<n>>
    ELSE <<chunk_size>> \o split_text(n - (chunk_size - chunk_overlap))

RECURSIVE split_documents(_)
split_documents(documents) ==
    IF documents = <<>> THEN <<>>
    ELSE LET doc == Head(documents)
             parts == split_text(doc.page_content)
         IN [i \in 1..Len(parts) |-> [page_content |-> parts[i], source |-> doc.source]]
            \o split_documents(Tail(documents))

PineconeVectorStore(index_name, embedding) ==
    [tag |-> "Store", index_name |-> index_name, embedding |-> embedding,
     _index |-> [name |-> index_name]]

\* What the service may do to an upload
BuildFailures == {"none", "split", "embed_quota", "embed_other", "upsert"}

upsert(idx, name, n) ==
    [idx EXCEPT ![name].total_vector_count = @ + n]

\* store.add_documents(chunks) and the body of PineconeVectorStore.from_documents:
\* embed the chunks, then upsert them into the index; an upsert that fails
\* part-way has written its first batch.
add_documents(idx, store, chunks, fail) ==
    LET embed == [api |-> "embed_documents", store |-> store, n |-> Len(chunks)]
        write == [api |-> "upsert", store |-> store, documents |-> chunks]
    IN  IF fail \in {"embed_quota", "embed_other"}
        THEN [outcome |-> "GoogleGenerativeAIError",
              message |-> IF fail = "embed_quota" THEN "429 quota exceeded" ELSE "500 internal",
              indexes |-> idx, calls |-> <<embed>>]
        ELSE IF ~idx[store.index_name].exists
        THEN [outcome |-> "PineconeException", message |-> "404 index not found",
              indexes |-> idx, calls |-> <<embed, write>>]
        ELSE IF fail = "upsert"
        THEN [outcome |-> "PineconeException", message |-> "503 unavailable",
              indexes |-> upsert(idx, store.index_name, IF Len(chunks) >= 2 THEN 1 ELSE 0),
              calls |-> <<embed, write>>]
        ELSE [outcome |-> "ok", message |-> "",
              indexes |-> upsert(idx, store.index_name, Len(chunks)),
              calls |-> <<embed, write>>]

----------------------------------------------------------------------------
(* SemanticSearchEngine.build_index *)

\* the except clause: print the message for the error, then re-raise
build_index_except_swallow(e, r) ==
    [outcome |-> "ok", ret |-> NoneVal, engine |-> e, indexes |-> r.indexes,
     calls |-> r.calls \o <<[api |-> "print", quota |-> TRUE]>>]

build_index_except(e, r) ==
    [outcome |-> r.outcome, ret |-> NoneVal, engine |-> e, indexes |-> r.indexes,
     calls |-> r.calls \o
        <<[api |-> "print", quota |-> r.message = "429 quota exceeded"]>>]

build_index(e, idx, documents, fail) ==
    LET split == [api |-> "split_documents", documents |-> documents]
        store == PineconeVectorStore(e.index_name, e.embeddings)
        r == add_documents(idx, store, split_documents(documents), fail)
        rr == [r EXCEPT !.calls = <<split>> \o @]
    IN  IF fail = "split"
        THEN [outcome |-> "Exception", ret |-> NoneVal, engine |-> e, indexes |-> idx,
              calls |-> <<split>>]
        ELSE IF r.outcome = "GoogleGenerativeAIError"
        THEN build_index_except(e, rr)
        ELSE IF r.outcome # "ok"
        THEN [outcome |-> r.outcome, ret |-> NoneVal, engine |-> e, indexes |-> r.indexes,
              calls |-> rr.calls]
        ELSE [outcome |-> "ok", ret |-> store,
              engine |-> [e EXCEPT !.vector_store = store],
              indexes |-> r.indexes, calls |-> rr.calls]

Fits(idx) == \A n \in IndexNames : idx[n].total_vector_count <= MaxVectors

Document(n, source) == [page_content |-> n, source |-> source]

\* the document lists a caller passes: none, one chunk, two chunks
DocumentLists ==
    {<<>>, <<Document(500, "a.txt")>>, <<Document(1800, "b.pdf")>>}

BuildIndex ==
    \E documents \in DocumentLists, fail \in BuildFailures :
        LET r == build_index(engine, indexes, documents, fail) IN
        /\ engine # NoneVal
        /\ Fits(r.indexes)
        /\ op' = [name |-> "build_index", documents |-> documents, fail |-> fail]
        /\ outcome' = r.outcome
        /\ ret' = r.ret
        /\ calls' = r.calls
        /\ indexes' = r.indexes
        /\ engine' = r.engine
        /\ UNCHANGED <<environ, initialized, upload_history>>

----------------------------------------------------------------------------
(* SemanticSearchEngine.delete_index, load_index *)

delete_index_unchecked(e, idx) ==
    [indexes |-> [idx EXCEPT ![e.index_name] = NoIndex], engine |-> e,
     outcome |-> IF e.index_name \in list_indexes(idx) THEN "ok" ELSE "NotFoundException",
     calls |-> <<[api |-> "delete_index", name |-> e.index_name]>>]

delete_index(e, idx) ==
    IF e.index_name \in list_indexes(idx)
    THEN [indexes |-> [idx EXCEPT ![e.index_name] = NoIndex], engine |-> e,
          outcome |-> "ok",
          calls |-> <<[api |-> "list_indexes"],
                      [api |-> "delete_index", name |-> e.index_name]>>]
    ELSE [indexes |-> idx, engine |-> e, outcome |-> "ok",
          calls |-> <<[api |-> "list_indexes"]>>]

DeleteIndex ==
    LET r == delete_index(engine, indexes) IN
    /\ engine # NoneVal
    /\ op' = [name |-> "delete_index"]
    /\ outcome' = r.outcome
    /\ ret' = NoneVal
    /\ calls' = r.calls
    /\ indexes' = r.indexes
    /\ engine' = r.engine
    /\ UNCHANGED <<environ, initialized, upload_history>>

load_index(e) ==
    [e EXCEPT !.vector_store = PineconeVectorStore(e.index_name, e.embeddings)]

LoadIndex ==
    /\ engine # NoneVal
    /\ op' = [name |-> "load_index"]
    /\ outcome' = "ok"
    /\ ret' = NoneVal
    /\ calls' = <<[api |-> "PineconeVectorStore", index_name |-> engine.index_name]>>
    /\ engine' = load_index(engine)
    /\ UNCHANGED <<environ, indexes, initialized, upload_history>>

----------------------------------------------------------------------------
(* SemanticSearchEngine.search, search_with_scores, get_collection_info *)

\* What the store answers: the top k of the vectors the index holds; a
\* deleted index answers with an error.
StoreHits(idx, store, k, scored) ==
    [i \in 1..Min(k, idx[store.index_name].total_vector_count) |->
        [rank |-> i, scored |-> scored]]

store_query(idx, store, api, query, k) ==
    IF idx[store.index_name].exists
    THEN [outcome |-> "ok",
          call |-> [api |-> api, store |-> store, query |-> query, k |-> k,
                    result |-> StoreHits(idx, store, k, api = "similarity_search_with_score")]]
    ELSE [outcome |-> "PineconeException",
          call |-> [api |-> api, store |-> store, query |-> query, k |-> k,
                    result |-> NoneVal]]

search_unguarded(e, idx, query, k) ==
    LET store == IF e.vector_store = NoneVal
                 THEN PineconeVectorStore(e.index_name, e.embeddings)
                 ELSE e.vector_store
        r == store_query(idx, store, "similarity_search", query, k)
    IN  [outcome |-> r.outcome, ret |-> r.call.result, calls |-> <<r.call>>]

search(e, idx, query, k) ==
    IF e.vector_store = NoneVal
    THEN [outcome |-> "ValueError", ret |-> NoneVal, calls |-> <<>>]
    ELSE LET r == store_query(idx, e.vector_store, "similarity_search", query, k)
         IN  [outcome |-> r.outcome, ret |-> r.call.result, calls |-> <<r.call>>]

search_with_scores(e, idx, query, k) ==
    IF e.vector_store = NoneVal
    THEN [outcome |-> "ValueError", ret |-> NoneVal, calls |-> <<>>]
    ELSE LET r == store_query(idx, e.vector_store, "similarity_search_with_score", query, k)
         IN  [outcome |-> r.outcome, ret |-> r.call.result, calls |-> <<r.call>>]

\* getattr(self.vector_store, "_index", None)
getattr_index(store) == IF "_index" \in DOMAIN store THEN store._index ELSE NoneVal

get_collection_info(e, idx) ==
    IF e.vector_store = NoneVal
    THEN [outcome |-> "ValueError", ret |-> NoneVal, calls |-> <<>>]
    ELSE IF getattr_index(e.vector_store) = NoneVal
    THEN [outcome |-> "ok",
          ret |-> [index_name |-> e.index_name, details |-> "Index handle not available"],
          calls |-> <<>>]
    ELSE IF ~idx[e.vector_store._index.name].exists
    THEN [outcome |-> "PineconeException", ret |-> NoneVal,
          calls |-> <<[api |-> "describe_index_stats", store |-> e.vector_store]>>]
    ELSE [outcome |-> "ok",
          ret |-> [index_name |-> e.index_name,
                   total_vector_count |-> idx[e.vector_store._index.name].total_vector_count],
          calls |-> <<[api |-> "describe_index_stats", store |-> e.vector_store]>>]

Search ==
    \E query \in Queries, k \in Ks :
        LET r == search(engine, indexes, query, k) IN
        /\ engine # NoneVal
        /\ op' = [name |-> "search", query |-> query, k |-> k]
        /\ outcome' = r.outcome
        /\ ret' = r.ret
        /\ calls' = r.calls
        /\ UNCHANGED <<environ, indexes, engine, initialized, upload_history>>

SearchWithScores ==
    \E query \in Queries, k \in Ks :
        LET r == search_with_scores(engine, indexes, query, k) IN
        /\ engine # NoneVal
        /\ op' = [name |-> "search_with_scores", query |-> query, k |-> k]
        /\ outcome' = r.outcome
        /\ ret' = r.ret
        /\ calls' = r.calls
        /\ UNCHANGED <<environ, indexes, engine, initialized, upload_history>>

GetCollectionInfo ==
    LET r == get_collection_info(engine, indexes) IN
    /\ engine # NoneVal
    /\ op' = [name |-> "get_collection_info"]
    /\ outcome' = r.outcome
    /\ ret' = r.ret
    /\ calls' = r.calls
    /\ UNCHANGED <<environ, indexes, engine, initialized, upload_history>>

----------------------------------------------------------------------------

----------------------------------------------------------------------------
(* SemanticSearchEngine.load_documents, for a single file *)

\* An uploaded file: its name, its suffix, the path it is written to and the
\* length of each of its pages.
Files ==
    {[name |-> "a.txt", suffix |-> ".txt", path |-> "temp_uploads/a.txt", pages |-> <<500>>],
     [name |-> "b.pdf", suffix |-> ".pdf", path |-> "temp_uploads/b.pdf", pages |-> <<500, 500>>]}

FileA == CHOOSE f \in Files : f.name = "a.txt"
FileB == CHOOSE f \in Files : f.name = "b.pdf"

\* PyPDFLoader gives a document per page, TextLoader one document
load_documents(file) ==
    IF file.suffix = ".pdf"
    THEN [outcome |-> "ok",
          documents |-> [i \in 1..Len(file.pages) |-> Document(file.pages[i], file.path)]]
    ELSE IF file.suffix \in {".md", ".txt"}
    THEN [outcome |-> "ok", documents |-> <<Document(file.pages[1], file.path)>>]
    ELSE [outcome |-> "ValueError", documents |-> <<>>]

----------------------------------------------------------------------------
(* The dashboard: session initialisation, Clear Index, the upload paths *)

\* What may raise inside an upload's try block
TextFailures == {"none", "split", "embed_quota", "upsert"}
FileFailures == {"none", "load", "split", "embed_quota", "upsert", "unlink"}
BulkFailures == {"none", "upsert", "unlink"}

IndexFailure(fail) == IF fail \in {"embed_quota", "upsert"} THEN fail ELSE "none"

\* chunks = text_splitter.split_documents(docs); build_index(docs) when the
\* engine has no vector store, vector_store.add_documents(chunks) otherwise.
upload_documents_build_on_chunks(e, idx, docs, fail) ==
    LET chunks == split_documents(docs)
        r == build_index(e, idx, chunks, IndexFailure(fail))
    IN  [outcome |-> IF fail = "split" THEN "Exception" ELSE r.outcome,
         engine |-> IF fail = "split" THEN e ELSE r.engine,
         indexes |-> IF fail = "split" THEN idx ELSE r.indexes,
         chunks |-> chunks,
         calls |-> IF fail = "split"
                   THEN <<[api |-> "text_splitter.split_documents", documents |-> docs]>>
                   ELSE <<[api |-> "text_splitter.split_documents", documents |-> docs],
                          [api |-> "engine.build_index", documents |-> chunks]>> \o r.calls]

upload_documents(e, idx, docs, fail) ==
    LET split == [api |-> "text_splitter.split_documents", documents |-> docs]
        chunks == split_documents(docs)
    IN  IF fail = "split"
        THEN [outcome |-> "Exception", engine |-> e, indexes |-> idx, chunks |-> <<>>,
              calls |-> <<split>>]
        ELSE IF e.vector_store = NoneVal
        THEN LET r == build_index(e, idx, docs, IndexFailure(fail))
             IN  [outcome |-> r.outcome, engine |-> r.engine, indexes |-> r.indexes,
                  chunks |-> chunks,
                  calls |-> <<split, [api |-> "engine.build_index", documents |-> docs]>>
                            \o r.calls]
        ELSE LET r == add_documents(idx, e.vector_store, chunks, IndexFailure(fail))
             IN  [outcome |-> r.outcome, engine |-> e, indexes |-> r.indexes,
                  chunks |-> chunks,
                  calls |-> <<split, [api |-> "vector_store.add_documents",
                                      store |-> e.vector_store, documents |-> chunks]>>
                            \o r.calls]

HistoryEntry(title, chunks, type) ==
    [title |-> title, chunks |-> Len(chunks), type |-> type]

\* One pass through an upload's try block, from the session st =
\* [engine, indexes, upload_history]: the session afterwards and the record
\* of the pass.
Pass(st, r, appended, entry, result, pre) ==
    [engine |-> r.engine, indexes |-> r.indexes,
     upload_history |-> IF appended THEN Append(st.upload_history, entry)
                        ELSE st.upload_history,
     pass |-> [outcome |-> result, before |-> st.engine.vector_store,
               after |-> r.engine.vector_store, calls |-> pre \o r.calls]]

\* lines 219-242
upload_text(st, title, content, fail) ==
    LET doc == Document(content, PyOr(title, "Text Input"))
        r == upload_documents(st.engine, st.indexes, <<doc>>, fail)
    IN  Pass(st, r, r.outcome = "ok",
             HistoryEntry(PyOr(title, "Text Input"), r.chunks, "text"), r.outcome, <<>>)

\* lines 257-289 (retitle: the file path sets each document's source to the
\* title) and lines 307-332
upload_file(st, file, title, retitle, fail) ==
    LET write == [api |-> "write", path |-> file.path]
        load == [api |-> "load_documents", file_path |-> file.path]
        loaded == load_documents(file)
        docs == IF retitle
                THEN [i \in 1..Len(loaded.documents) |->
                        [loaded.documents[i] EXCEPT !.source = title]]
                ELSE loaded.documents
        r == upload_documents(st.engine, st.indexes, docs, fail)
        unchanged == [engine |-> st.engine, indexes |-> st.indexes, calls |-> <<>>]
    IN  IF fail = "load" \/ loaded.outcome # "ok"
        THEN Pass(st, unchanged, FALSE, NoneVal,
                  IF fail = "load" THEN "Exception" ELSE loaded.outcome, <<write, load>>)
        ELSE IF r.outcome # "ok"
        THEN Pass(st, r, FALSE, NoneVal, r.outcome, <<write, load>>)
        ELSE IF fail = "unlink"
        THEN Pass(st, [r EXCEPT !.calls = @ \o <<[api |-> "unlink", path |-> file.path]>>],
                  FALSE, NoneVal, "OSError", <<write, load>>)
        ELSE Pass(st, [r EXCEPT !.calls = @ \o <<[api |-> "unlink", path |-> file.path]>>],
                  TRUE, HistoryEntry(title, r.chunks, "file"), "ok", <<write, load>>)

\* lines 304-334: the files one after the other, each in its own try block
RECURSIVE upload_bulk(_, _, _)
upload_bulk(st, files, fails) ==
    IF files = <<>>
    THEN [engine |-> st.engine, indexes |-> st.indexes,
          upload_history |-> st.upload_history, passes |-> <<>>]
    ELSE LET one == upload_file(st, Head(files), Head(files).name, FALSE, Head(fails))
             rest == upload_bulk(one, Tail(files), Tail(fails))
         IN  [rest EXCEPT !.passes = <<one.pass>> \o @]

RECURSIVE Flatten(_)
Flatten(ss) == IF ss = <<>> THEN <<>> ELSE Head(ss) \o Flatten(Tail(ss))

Session == [engine |-> engine, indexes |-> indexes, upload_history |-> upload_history]

\* lines 41-50: the script's first lines, while 'engine' is not in the session
SessionInit ==
    \E probe \in Dimensions :
        LET r == SemanticSearchEngine_init(indexes, DefaultModel, NoKey, NoKey,
                                           DefaultIndexName, probe) IN
        /\ engine = NoneVal
        /\ op' = [name |-> "session_init", probe |-> probe]
        /\ outcome' = r.outcome
        /\ ret' = r.engine
        /\ calls' = r.calls
        /\ indexes' = r.indexes
        /\ engine' = r.engine
        /\ initialized' = IF r.outcome = "ok" THEN "True" ELSE "False"
        /\ upload_history' = IF r.outcome = "ok" THEN <<>> ELSE upload_history
        /\ UNCHANGED environ

\* lines 95-105
ClearIndex ==
    LET r == delete_index(engine, indexes) IN
    /\ initialized = "True"
    /\ op' = [name |-> "clear_index"]
    /\ outcome' = r.outcome
    /\ ret' = NoneVal
    /\ calls' = r.calls
    /\ indexes' = r.indexes
    /\ engine' = [r.engine EXCEPT !.vector_store = NoneVal]
    /\ upload_history' = <<>>
    /\ UNCHANGED <<environ, initialized>>

Uploaded(name, r, passes) ==
    /\ Fits(r.indexes)
    /\ Len(r.upload_history) <= MaxHistory
    /\ op' = name
    /\ outcome' = "ok"
    /\ ret' = passes
    /\ calls' = Flatten([i \in 1..Len(passes) |-> passes[i].calls])
    /\ indexes' = r.indexes
    /\ engine' = r.engine
    /\ upload_history' = r.upload_history
    /\ UNCHANGED <<environ, initialized>>

UploadText ==
    \E title \in {"", "Notes"}, content \in {0, 500, 1800}, fail \in TextFailures :
        /\ initialized = "True"
        /\ content # 0
        /\ LET r == upload_text(Session, title, content, fail) IN
           Uploaded([name |-> "upload_text", title |-> title, content |-> content,
                     fail |-> fail], r, <<r.pass>>)

UploadFile ==
    \E file \in Files, title \in {"a.txt", "b.pdf", "Report"}, fail \in FileFailures :
        /\ initialized = "True"
        /\ title \in {file.name, "Report"}
        /\ LET r == upload_file(Session, file, title, TRUE, fail) IN
           Uploaded([name |-> "upload_file", file |-> file, title |-> title,
                     fail |-> fail], r, <<r.pass>>)

BulkLists == {<<FileA>>, <<FileA, FileB>>, <<FileB, FileA>>}

UploadBulk ==
    \E files \in BulkLists :
        \E fails \in [1..Len(files) -> BulkFailures] :
            /\ initialized = "True"
            /\ LET r == upload_bulk(Session, files, fails) IN
               Uploaded([name |-> "upload_bulk", files |-> files, fails |-> fails],
                        r, r.passes)

\* The account as the program finds it: indexes left by earlier runs
Account ==
    [IndexNames ->
        {NoIndex} \cup
        {[exists |-> TRUE, dimension |-> d, metric |-> "cosine", cloud |-> "aws",
          region |-> "us-east-1", total_vector_count |-> 0] : d \in Dimensions}]

Start ==
    /\ engine = NoneVal
    /\ initialized = "unset"
    /\ upload_history = <<>>
    /\ op = [name |-> "start"]
    /\ outcome = "ok"
    /\ ret = NoneVal
    /\ calls = <<>>

\* The constructor under every combination of keys, and delete_index
Init ==
    /\ environ \in [{"GOOGLE_API_KEY", "PINECONE_API_KEY"} -> EnvKeys]
    /\ indexes \in Account
    /\ Start

Next ==
    \/ Construct(ArgKeys, ArgKeys)
    \/ DeleteIndex

Spec == Init /\ [][Next]_vars

\* The engine's operations, with the keys taken from the environment
InitEngine ==
    /\ environ = [n \in {"GOOGLE_API_KEY", "PINECONE_API_KEY"} |-> "env-key"]
    /\ indexes \in Account
    /\ Start

NextEngine ==
    \/ Construct(DefaultKeys, DefaultKeys)
    \/ BuildIndex
    \/ DeleteIndex
    \/ LoadIndex
    \/ Search
    \/ SearchWithScores
    \/ GetCollectionInfo

SpecEngine == InitEngine /\ [][NextEngine]_vars

\* The dashboard session
InitDashboard ==
    /\ environ \in [{"GOOGLE_API_KEY", "PINECONE_API_KEY"} -> EnvKeys]
    /\ indexes \in {a \in Account : ~a["other-index"].exists}
    /\ Start

NextDashboard ==
    \/ SessionInit
    \/ ClearIndex
    \/ UploadText
    \/ UploadFile
    \/ UploadBulk

SpecDashboard == InitDashboard /\ [][NextDashboard]_vars

----------------------------------------------------------------------------
(* Properties *)

CallsTo(cs, apis) == SelectSeq(cs, LAMBDA c : c.api \in apis)
HasCall(cs, apis) == \E i \in 1..Len(cs) : cs[i].api \in apis

PineconeApis ==
    {"Pinecone", "list_indexes", "describe_index", "create_index", "delete_index",
     "PineconeVectorStore", "upsert"}

\* C1 (state part): with vector_store None, search, search_with_scores and
\* get_collection_info raise ValueError and call nothing; with a vector store,
\* search and search_with_scores make exactly one call, to that store, with
\* the caller's query and k, and return what the store returned.
C1_Guarded ==
    /\ (op.name \in {"search", "search_with_scores", "get_collection_info"}
          /\ engine.vector_store = NoneVal)
        => (outcome = "ValueError" /\ calls = <<>> /\ ret = NoneVal)
    /\ (op.name \in {"search", "search_with_scores"} /\ engine.vector_store # NoneVal)
        => /\ Len(calls) = 1
           /\ calls[1].api = (IF op.name = "search" THEN "similarity_search"
                              ELSE "similarity_search_with_score")
           /\ calls[1].store = engine.vector_store
           /\ calls[1].query = op.query
           /\ calls[1].k = op.k
           /\ outcome # "ValueError"
           /\ (outcome = "ok" => ret = calls[1].result)

\* C1 (step part): a constructed engine has vector_store None, and only a
\* build_index that succeeded or a load_index makes it anything else; the
\* three queries leave the engine and the account as they were.
C1_OnlyBuildOrLoadSets ==
    /\ (op'.name = "__init__" /\ outcome' = "ok") => engine'.vector_store = NoneVal
    /\ (engine' # NoneVal /\ engine'.vector_store # NoneVal
          /\ (engine = NoneVal \/ engine.vector_store = NoneVal))
        => ((op'.name = "build_index" /\ outcome' = "ok") \/ op'.name = "load_index")
    /\ op'.name \in {"search", "search_with_scores", "get_collection_info"}
        => (engine' = engine /\ indexes' = indexes)

\* C1: search, search_with_scores and get_collection_info raise ValueError
\* without calling the store whenever vector_store is None, which is the case
\* in every state where no build_index has succeeded and no load_index has
\* been called; otherwise search and search_with_scores forward query and k
\* unchanged and return the store's result unmodified.
C1_SearchRequiresStoreAndForwards == []C1_Guarded /\ [][C1_OnlyBuildOrLoadSets]_vars

C1_Witness ==
    /\ op.name = "search_with_scores"
    /\ outcome = "ok"
    /\ op.k = 1
    /\ indexes[engine.index_name].total_vector_count >= 2
    /\ Len(ret) = 1

Listed(cs) == HasCall(cs, {"list_indexes"})

\* one constructor step, against the account before it
C2_Step ==
    op'.name = "__init__" =>
        LET name == op'.pinecone_index_name
            creates == CallsTo(calls', {"create_index"})
        IN  /\ Len(creates) = (IF Listed(calls') /\ ~indexes[name].exists THEN 1 ELSE 0)
            /\ Len(creates) = 1 =>
                 /\ creates[1] = [api |-> "create_index", name |-> name,
                                  dimension |-> op'.probe, metric |-> "cosine",
                                  cloud |-> "aws", region |-> "us-east-1"]
                 /\ indexes' = [indexes EXCEPT ![name] =
                                   [exists |-> TRUE, dimension |-> op'.probe,
                                    metric |-> "cosine", cloud |-> "aws",
                                    region |-> "us-east-1", total_vector_count |-> 0]]
            /\ indexes[name].exists => indexes' = indexes

\* C2: a constructor that gets as far as listing the indexes calls
\* create_index exactly when pinecone_index_name is not among them, once, with
\* metric cosine, serverless aws/us-east-1 and the length of the probe vector
\* as dimension, and the account then holds that index; when the name is
\* listed the account is left as it was.
C2_CreatesIndexIffMissing == [][C2_Step]_vars

C2_Witness ==
    /\ op.name = "__init__"
    /\ outcome = "ok"
    /\ op.google_model_name = "gemini-embedding-001"
    /\ op.probe = 768
    /\ HasCall(calls, {"create_index"})
    /\ indexes[op.pinecone_index_name].dimension = 768

\* one constructor step that found the index, against the account before it
C3_Step ==
    (op'.name = "__init__" /\ Listed(calls') /\ indexes[op'.pinecone_index_name].exists) =>
        IF indexes[op'.pinecone_index_name].dimension # op'.probe
        THEN /\ outcome' = "ValueError: DIMENSION MISMATCH"
             /\ ret' = NoneVal
             /\ engine' = engine
             /\ indexes' = indexes
             /\ ~HasCall(calls', {"create_index", "delete_index", "upsert"})
        ELSE /\ outcome' = "ok"
             /\ ret' # NoneVal
             /\ engine' = ret'
             /\ engine'.vector_store = NoneVal
             /\ engine'.index_name = op'.pinecone_index_name
             /\ indexes' = indexes

\* C3: when the constructor finds the index and its dimension differs from
\* the length of the probe vector it raises ValueError, produces no engine and
\* leaves the account untouched (no create, delete or upsert); when the
\* dimensions are equal it completes with vector_store None.
C3_MismatchRaisesAndKeepsIndex == [][C3_Step]_vars

C3_Witness ==
    /\ op.name = "__init__"
    /\ outcome = "ValueError: DIMENSION MISMATCH"
    /\ indexes[op.pinecone_index_name].exists
    /\ indexes[op.pinecone_index_name].dimension # op.probe

\* C4: when construction fails with the dimension mismatch there is an engine
\* on which delete_index() deletes the mismatched index.
C4_DeleteIndexCallable ==
    (op.name = "__init__" /\ outcome = "ValueError: DIMENSION MISMATCH")
        => (engine # NoneVal /\ engine.index_name = op.pinecone_index_name)

GoogleKeyAvailable ==
    Truthy(op.google_api_key) \/ Truthy(environ["GOOGLE_API_KEY"])
PineconeKeyAvailable ==
    Truthy(op.pinecone_api_key) \/ Truthy(environ["PINECONE_API_KEY"])

\* the constructor's outcome and calls, by the keys available
C5_State ==
    op.name = "__init__" =>
        /\ ~GoogleKeyAvailable => (outcome = "ValueError: GOOGLE_API_KEY" /\ calls = <<>>)
        /\ (GoogleKeyAvailable /\ ~PineconeKeyAvailable) =>
             /\ outcome = "ValueError: PINECONE_API_KEY"
             /\ ~HasCall(calls, PineconeApis)
        /\ (GoogleKeyAvailable /\ PineconeKeyAvailable) =>
             outcome \notin {"ValueError: GOOGLE_API_KEY", "ValueError: PINECONE_API_KEY"}
        /\ \A i \in 1..Len(calls) :
             /\ (calls[i].api = "embed_query" /\ Truthy(op.google_api_key))
                  => calls[i].key = op.google_api_key
             /\ (calls[i].api = "embed_query" /\ ~Truthy(op.google_api_key))
                  => calls[i].key = environ["GOOGLE_API_KEY"]
             /\ (calls[i].api = "Pinecone" /\ Truthy(op.pinecone_api_key))
                  => calls[i].key = op.pinecone_api_key
             /\ (calls[i].api = "Pinecone" /\ ~Truthy(op.pinecone_api_key))
                  => calls[i].key = environ["PINECONE_API_KEY"]
        /\ outcome = "ok" =>
             /\ ret.embeddings.google_api_key =
                  (IF Truthy(op.google_api_key) THEN op.google_api_key
                   ELSE environ["GOOGLE_API_KEY"])
             /\ ret.pc.api_key =
                  (IF Truthy(op.pinecone_api_key) THEN op.pinecone_api_key
                   ELSE environ["PINECONE_API_KEY"])

\* a constructor that fails on a key changes nothing
C5_Step ==
    (op'.name = "__init__"
       /\ outcome' \in {"ValueError: GOOGLE_API_KEY", "ValueError: PINECONE_API_KEY"})
        => (indexes' = indexes /\ engine' = engine /\ ret' = NoneVal)

\* C5: the constructor raises ValueError when no Google key is available
\* (argument or GOOGLE_API_KEY) and when no Pinecone key is available
\* (argument or PINECONE_API_KEY); a key passed explicitly is the one used;
\* in both failures no Pinecone call is made and the account is unchanged,
\* and a missing Google key fails before any call at all.
C5_MissingKeysRaise == []C5_State /\ [][C5_Step]_vars

C5_Witness ==
    /\ op.name = "__init__"
    /\ outcome = "ValueError: PINECONE_API_KEY"
    /\ op.google_api_key = "arg-key"
    /\ environ["GOOGLE_API_KEY"] = "env-key"
    /\ HasCall(calls, {"embed_query"})
    /\ \E n \in IndexNames : indexes[n].exists

\* one build_index step, against the engine before it
C6_Step ==
    op'.name = "build_index" =>
        /\ op'.fail = "split" => outcome' = "Exception"
        /\ op'.fail \in {"embed_quota", "embed_other"} => outcome' = "GoogleGenerativeAIError"
        /\ op'.fail = "upsert" => outcome' = "PineconeException"
        /\ IF outcome' = "ok"
           THEN /\ ret' = PineconeVectorStore(engine.index_name, engine.embeddings)
                /\ engine' = [engine EXCEPT !.vector_store = ret']
           ELSE /\ engine' = engine
                /\ ret' = NoneVal

\* C6: a build_index in which splitting, embedding or upserting raises ends
\* with that exception at the caller and vector_store as it was before the
\* call; one that succeeds sets vector_store to the store built from the
\* engine's index name and embeddings and returns that store.
C6_BuildIndexPropagates == [][C6_Step]_vars

C6_Witness ==
    /\ op.name = "build_index"
    /\ op.fail = "embed_other"
    /\ outcome = "GoogleGenerativeAIError"
    /\ engine.vector_store # NoneVal

\* one delete_index step, against the state before it
C7_Step ==
    op'.name = "delete_index" =>
        LET name == engine.index_name
            deletes == CallsTo(calls', {"delete_index"})
        IN  /\ outcome' = "ok"
            /\ Len(deletes) = (IF indexes[name].exists THEN 1 ELSE 0)
            /\ \A i \in 1..Len(deletes) : deletes[i].name = name
            /\ ~indexes'[name].exists
            /\ \A n \in IndexNames \ {name} : indexes'[n] = indexes[n]
            /\ engine' = engine
            /\ op.name = "delete_index" => indexes' = indexes

\* C7: delete_index calls delete for self.index_name exactly when the index
\* exists and otherwise returns without a delete call or an exception; the
\* index does not exist afterwards and no other index is touched; a second
\* call in a row changes nothing; the engine (vector_store, index_name,
\* embeddings) is as before.
C7_DeleteIndexIdempotent == [][C7_Step]_vars

C7_Witness ==
    /\ op.name = "delete_index"
    /\ HasCall(calls, {"delete_index"})
    /\ engine.vector_store # NoneVal
    /\ \E n \in IndexNames : indexes[n].exists

IndexingApis == {"engine.build_index", "vector_store.add_documents"}

\* the documents, the title and the type of the i-th upload of an operation
UploadDocs(o, i) ==
    IF o.name = "upload_text"
    THEN <<Document(o.content, IF o.title = "" THEN "Text Input" ELSE o.title)>>
    ELSE IF o.name = "upload_file"
    THEN LET docs == load_documents(o.file).documents
         IN  [j \in 1..Len(docs) |-> Document(docs[j].page_content, o.title)]
    ELSE load_documents(o.files[i]).documents

UploadEntry(o, i) ==
    [title |-> IF o.name = "upload_text"
               THEN (IF o.title = "" THEN "Text Input" ELSE o.title)
               ELSE IF o.name = "upload_file" THEN o.title ELSE o.files[i].name,
     chunks |-> Len(split_documents(UploadDocs(o, i))),
     type |-> IF o.name = "upload_text" THEN "text" ELSE "file"]

RECURSIVE EntriesOf(_, _, _)
EntriesOf(o, passes, i) ==
    IF i > Len(passes) THEN <<>>
    ELSE (IF passes[i].outcome = "ok" THEN <<UploadEntry(o, i)>> ELSE <<>>)
         \o EntriesOf(o, passes, i + 1)

\* one upload operation, pass by pass, against the session before it
C8_Step ==
    op'.name \in {"upload_text", "upload_file", "upload_bulk"} =>
        /\ Len(ret') = (IF op'.name = "upload_bulk" THEN Len(op'.files) ELSE 1)
        /\ \A i \in 1..Len(ret') :
             LET pass == ret'[i]
                 indexing == CallsTo(pass.calls, IndexingApis)
                 before == IF i = 1 THEN engine.vector_store ELSE ret'[i - 1].after
             IN  /\ pass.before = before
                 /\ Len(indexing) <= 1
                 /\ pass.outcome = "ok" => Len(indexing) = 1
                 /\ Len(indexing) = 1 =>
                      IF before = NoneVal
                      THEN indexing[1] = [api |-> "engine.build_index",
                                          documents |-> UploadDocs(op', i)]
                      ELSE indexing[1] = [api |-> "vector_store.add_documents",
                                          store |-> before,
                                          documents |-> split_documents(UploadDocs(op', i))]
                 /\ Len(indexing) = 0 => pass.after = before
        /\ engine'.vector_store = ret'[Len(ret')].after
        /\ upload_history' = upload_history \o EntriesOf(op', ret', 1)

\* C8: every upload of the text, file and bulk paths indexes at most once:
\* with engine.build_index on the unsplit documents when the engine had no
\* vector store, with add_documents of that store on the split chunks
\* otherwise; an upload that completes did index; upload_history grows by
\* exactly one entry, carrying the splitter's chunk count, for each upload
\* that completed without exception and by none for one that raised.
C8_UploadPaths == [][C8_Step]_vars

C8_Witness ==
    /\ op.name = "upload_bulk"
    /\ Len(ret) = 2
    /\ ret[1].before = NoneVal
    /\ ret[1].outcome = "ok"
    /\ ret[2].outcome = "ok"
    /\ HasCall(ret[2].calls, {"vector_store.add_documents"})
    /\ Len(upload_history) = 2
    /\ upload_history[2].chunks = 2

====
